---------------------------- MODULE Spec2Model ----------------------------
(***************************************************************************)
(* A model of the M5 data loader (src/src/data/load_data.py): the loader   *)
(* M5DataLoader, the reshaper melt_sales_data, the hierarchy builder       *)
(* create_hierarchical_structure and the composition load_and_prepare_data.*)
(*                                                                         *)
(* A DataFrame is a record [columns, index, rows]: the column names in     *)
(* order, the index labels in row order, and the rows in order, each row a *)
(* function from column name to value.  Identifier values (item_id, ...)   *)
(* are naturals standing for strings whose lexicographic order is the      *)
(* numeric order.  A date is <<n>>, n the number of days since 1970-01-01, *)
(* and the missing date NaT is <<>>.                                       *)
(***************************************************************************)
EXTENDS Integers, Sequences, FiniteSets, TLC

VARIABLES
    fs,           \* the data directory: file name -> contents, or Missing
    validation,   \* argument of load_all_data / load_and_prepare_data
    melt_sales,   \* argument of load_and_prepare_data
    pc,           \* position of the running call
    reads,        \* the files read_csv was called on, in order
    parts,        \* the values of load_all_data's dict display evaluated so far
    data,         \* the table collection of load_all_data (a dict), or NoDict
    loaded,       \* the collection as load_all_data returned it
    hierarchy,    \* the hierarchy of load_and_prepare_data, or NoHierarchy
    outcome,      \* what load_and_prepare_data did: running, returned, raised
    sales_df,     \* argument of melt_sales_data / create_hierarchical_structure
    calendar_df,  \* argument of melt_sales_data
    merged,       \* local 'melted' of melt_sales_data after the merge (line 191)
    ret           \* what the function under call returned or raised

vars == <<fs, validation, melt_sales, pc, reads, parts, data, loaded, hierarchy,
          outcome, sales_df, calendar_df, merged, ret>>

---------------------------------------------------------------------------
(* Bounds of the model. *)

MaxRows == 2

MaxDays == 2

MaxCal == 2

MaxCells == 4

ItemIds == 1..2

GroupIds == 1..2

SalesValues == 0..1

MeltDates == 0..1

WeekDates == 0..6

---------------------------------------------------------------------------
(* Values and small helpers. *)

NaT == <<>>

Missing == [kind |-> "missing"]

Returned(v) == [kind |-> "returned", value |-> v]

Raised(e) == [kind |-> "raised", error |-> e]

NotCalled == [kind |-> "none"]

Range(s) == {s[i] : i \in DOMAIN s}

RECURSIVE Flatten(_)
Flatten(ss) == IF ss = <<>> THEN <<>> ELSE Head(ss) \o Flatten(Tail(ss))

RECURSIVE SumSeq(_)
SumSeq(s) == IF s = <<>> THEN 0 ELSE Head(s) + SumSeq(Tail(s))

RangeIndex(n) == [i \in 1..n |-> i - 1]

DataFrame(cols, rows) ==
    [columns |-> cols, index |-> RangeIndex(Len(rows)), rows |-> rows]

NoFrame == DataFrame(<<>>, <<>>)

IdCols == <<"id", "item_id", "dept_id", "cat_id", "store_id", "state_id">>

DayColNames == <<"d_1", "d_2", "d_3", "d_4">>

---------------------------------------------------------------------------
(* melt_sales_data *)

\* col.startswith('d_'), on the column names of the M5 schema.
StartsWithDPrefixLoose(col) == col \in Range(DayColNames) \cup {"dept_id"}

StartsWithDPrefix(col) == col \in Range(DayColNames)

\* pd.melt(frame, id_vars, value_vars, var_name='d', value_name='sales'):
\* value column by value column, the frame's rows in order under each.
pd_melt_first_value(frame, id_vars, value_vars) ==
    LET R == Len(frame.rows)
        K == Len(value_vars)
        row(n) == frame.rows[((n - 1) % R) + 1]
        var(n) == value_vars[((n - 1) \div R) + 1]
    IN  DataFrame(id_vars \o <<"d", "sales">>,
            [n \in 1..(R * K) |->
                [c \in Range(id_vars) \cup {"d", "sales"} |->
                    IF c = "d" THEN var(n)
                    ELSE IF c = "sales" THEN row(n)[value_vars[1]]
                    ELSE row(n)[c]]])

pd_melt(frame, id_vars, value_vars) ==
    LET R == Len(frame.rows)
        K == Len(value_vars)
        row(n) == frame.rows[((n - 1) % R) + 1]
        var(n) == value_vars[((n - 1) \div R) + 1]
    IN  DataFrame(id_vars \o <<"d", "sales">>,
            [n \in 1..(R * K) |->
                [c \in Range(id_vars) \cup {"d", "sales"} |->
                    IF c = "d" THEN var(n)
                    ELSE IF c = "sales" THEN row(n)[var(n)]
                    ELSE row(n)[c]]])

\* calendar_df[['d', 'date']]
d_date(frame) ==
    DataFrame(<<"d", "date">>,
        [i \in 1..Len(frame.rows) |->
            [c \in {"d", "date"} |-> frame.rows[i][c]]])

WithDate(l, date) ==
    [c \in DOMAIN l \cup {"date"} |-> IF c = "date" THEN date ELSE l[c]]

\* left.merge(right, on='d', how='inner'): unmatched left rows are dropped.
merge_inner(left, right) ==
    LET matches(l) == SelectSeq(right.rows, LAMBDA r : r["d"] = l["d"])
        joined(l) == [j \in 1..Len(matches(l)) |-> WithDate(l, matches(l)[j]["date"])]
    IN  DataFrame(left.columns \o <<"date">>,
            Flatten([i \in 1..Len(left.rows) |-> joined(left.rows[i])]))

\* left.merge(right, on='d', how='left'): the left rows in order, each once
\* per right row with the same 'd' (in right order), or once with a missing
\* date when there is none.
merge_left(left, right) ==
    LET matches(l) == SelectSeq(right.rows, LAMBDA r : r["d"] = l["d"])
        joined(l) ==
            IF matches(l) = <<>> THEN << WithDate(l, NaT) >>
            ELSE [j \in 1..Len(matches(l)) |-> WithDate(l, matches(l)[j]["date"])]
    IN  DataFrame(left.columns \o <<"date">>,
            Flatten([i \in 1..Len(left.rows) |-> joined(left.rows[i])]))

\* Ascending order of dates with na_position='last'.
DateLess(x, y) == x # NaT /\ (y = NaT \/ x[1] < y[1])

\* Lexicographic order on the sort keys ['item_id', 'date'].
KeyLess(a, b) ==
    \/ a["item_id"] < b["item_id"]
    \/ a["item_id"] = b["item_id"] /\ DateLess(a["date"], b["date"])

\* An insertion before the entries of equal key: not stable.
RECURSIVE InsertPosUnstable(_, _, _, _)
InsertPosUnstable(rows, ix, p, k) ==
    IF k > Len(ix) THEN k
    ELSE IF ~KeyLess(rows[ix[k]], rows[p]) THEN k
    ELSE InsertPosUnstable(rows, ix, p, k + 1)

\* Position at which row number p goes into the sorted indexer ix: after
\* every entry whose key is not greater (stable).
RECURSIVE InsertPos(_, _, _, _)
InsertPos(rows, ix, p, k) ==
    IF k > Len(ix) THEN k
    ELSE IF KeyLess(rows[p], rows[ix[k]]) THEN k
    ELSE InsertPos(rows, ix, p, k + 1)

\* The stable sorting permutation of rows 1..n by KeyLess (np.lexsort).
RECURSIVE lexsort_indexer(_, _)
lexsort_indexer(rows, n) ==
    IF n = 0 THEN <<>>
    ELSE LET ix == lexsort_indexer(rows, n - 1)
             k  == InsertPos(rows, ix, n, 1)
         IN  SubSeq(ix, 1, k - 1) \o <<n>> \o SubSeq(ix, k, Len(ix))

\* frame.sort_values(['item_id', 'date']): rows and their index labels
\* permuted by the indexer.
sort_values(frame) ==
    LET ix == lexsort_indexer(frame.rows, Len(frame.rows))
    IN  [columns |-> frame.columns,
         index   |-> [k \in 1..Len(ix) |-> frame.index[ix[k]]],
         rows    |-> [k \in 1..Len(ix) |-> frame.rows[ix[k]]]]

\* frame.reset_index(drop=True)
reset_index(frame) == DataFrame(frame.columns, frame.rows)

id_cols_of(frame) == SelectSeq(frame.columns, LAMBDA c : ~StartsWithDPrefix(c))

day_cols_of(frame) == SelectSeq(frame.columns, LAMBDA c : StartsWithDPrefix(c))

\* Lines 178-191: the melted frame joined with the calendar, before the sort.
melt_and_merge(sales, calendar) ==
    merge_left(pd_melt(sales, id_cols_of(sales), day_cols_of(sales)),
               d_date(calendar))

\* Lines 178-197: what melt_sales_data returns.
melt_sales_data(sales, calendar) ==
    reset_index(sort_values(melt_and_merge(sales, calendar)))

---------------------------------------------------------------------------
(* create_hierarchical_structure *)

\* Series.unique().tolist(): the distinct values in order of first appearance.
RECURSIVE unique(_)
unique(values) ==
    IF values = <<>> THEN <<>>
    ELSE LET init == unique(SubSeq(values, 1, Len(values) - 1))
             last == values[Len(values)]
         IN  IF last \in Range(init) THEN init ELSE Append(init, last)

column(frame, col) == [i \in 1..Len(frame.rows) |-> frame.rows[i][col]]

\* frame[cols].drop_duplicates(): the projected rows, first occurrences kept.
drop_duplicates(frame, cols) ==
    unique([i \in 1..Len(frame.rows) |-> [c \in cols |-> frame.rows[i][c]]])

\* dict(zip(keys, values)): a later pair overwrites an earlier one of the same key.
RECURSIVE to_dict(_, _)
to_dict(keys, values) ==
    IF keys = <<>> THEN <<>>
    ELSE LET n    == Len(keys)
             init == to_dict(SubSeq(keys, 1, n - 1), SubSeq(values, 1, n - 1))
         IN  [k \in DOMAIN init \cup {keys[n]} |->
                 IF k = keys[n] THEN values[n] ELSE init[k]]

\* Lines 219-220 with the two columns exchanged.
store_state_mapping_swapped(sales) ==
    LET store_state_map == drop_duplicates(sales, {"store_id", "state_id"})
        n == Len(store_state_map)
    IN  to_dict([i \in 1..n |-> store_state_map[i]["state_id"]],
                [i \in 1..n |-> store_state_map[i]["store_id"]])

\* Lines 219-220: drop_duplicates, set_index('store_id')['state_id'].to_dict().
store_state_mapping(sales) ==
    LET store_state_map == drop_duplicates(sales, {"store_id", "state_id"})
        n == Len(store_state_map)
    IN  to_dict([i \in 1..n |-> store_state_map[i]["store_id"]],
                [i \in 1..n |-> store_state_map[i]["state_id"]])

\* Index.is_unique
is_unique(values) == \A i, j \in 1..Len(values) : values[i] = values[j] => i = j

\* Lines 223-224: drop_duplicates, set_index('item_id').to_dict('index'), which
\* raises ValueError when the index is not unique.
item_hierarchy_mapping(sales) ==
    LET item_hierarchy == drop_duplicates(sales, {"item_id", "dept_id", "cat_id"})
        n == Len(item_hierarchy)
        index == [i \in 1..n |-> item_hierarchy[i]["item_id"]]
    IN  IF ~is_unique(index) THEN Raised("ValueError")
        ELSE Returned(to_dict(index,
                 [i \in 1..n |-> [dept_id |-> item_hierarchy[i]["dept_id"],
                                  cat_id  |-> item_hierarchy[i]["cat_id"]]]))

\* Lines 210-226.
create_hierarchical_structure(sales) ==
    LET items == item_hierarchy_mapping(sales)
    IN  IF items.kind = "raised" THEN items
        ELSE Returned(
               [states              |-> unique(column(sales, "state_id")),
                stores              |-> unique(column(sales, "store_id")),
                categories          |-> unique(column(sales, "cat_id")),
                departments         |-> unique(column(sales, "dept_id")),
                items               |-> unique(column(sales, "item_id")),
                store_state_mapping |-> store_state_mapping(sales),
                item_hierarchy      |-> items.value])

---------------------------------------------------------------------------
(* M5DataLoader *)

\* self.data_files (lines 28-34); _get_file_path joins the name to data_dir.
data_files ==
    [calendar               |-> "calendar.csv",
     sales_train_validation |-> "sales_train_validation.csv",
     sales_train_evaluation |-> "sales_train_evaluation.csv",
     sample_submission      |-> "sample_submission.csv",
     sell_prices            |-> "sell_prices.csv"]

FileNames == {data_files[k] : k \in DOMAIN data_files}

File(table) == [kind |-> "file", table |-> table]

\* A read that answers a missing file with an empty table.
read_csv_lenient(files, path) ==
    IF files[path].kind = "missing" THEN Returned(NoFrame)
    ELSE Returned(files[path].table)

\* pd.read_csv(path): the file's table, or FileNotFoundError.
read_csv(files, path) ==
    IF files[path].kind = "missing" THEN Raised("FileNotFoundError")
    ELSE Returned(files[path].table)

\* A cell of the raw 'date' column: the ISO text of a day, an empty cell, or
\* text that is no date.
IsoDate(n) == [text |-> "iso", day |-> n]

EmptyCell == [text |-> "empty"]

Garbage == [text |-> "garbage"]

\* pd.to_datetime on one cell (line 53); it raises on text that is no date.
Parseable(cell) == cell.text \in {"iso", "empty"}

to_datetime(cell) == IF cell.text = "iso" THEN <<cell.day>> ELSE NaT

\* Series.dt.dayofweek (line 59), Monday = 0; 1970-01-01 was a Thursday.
\* It is missing for a missing date.
dayofweek(date) == IF date = NaT THEN <<>> ELSE <<(date[1] + 3) % 7>>

\* The date parts of lines 56-58 and 60, for the dates of January 1970.
year(date) == IF date = NaT THEN <<>> ELSE <<1970>>

month(date) == IF date = NaT THEN <<>> ELSE <<1>>

day(date) == IF date = NaT THEN <<>> ELSE <<date[1] + 1>>

quarter(date) == IF date = NaT THEN <<>> ELSE <<1>>

\* isin with Sunday = 0 .. Saturday = 6 in mind.
is_weekend_sunday0(dow) == IF dow # <<>> /\ dow[1] \in {0, 6} THEN 1 ELSE 0

\* calendar['dayofweek'].isin([5, 6]).astype(int) on one cell (line 61).
is_weekend(dow) == IF dow # <<>> /\ dow[1] \in {5, 6} THEN 1 ELSE 0

\* Lines 47-64.
load_calendar(files) ==
    LET r == read_csv(files, data_files["calendar"]) IN
    IF r.kind = "raised" THEN r
    ELSE IF \E i \in 1..Len(r.value.rows) : ~Parseable(r.value.rows[i]["date"])
    THEN Raised("ValueError")
    ELSE Returned(
           [columns |-> r.value.columns \o
                        <<"year", "month", "day", "dayofweek", "quarter", "is_weekend">>,
            index   |-> r.value.index,
            rows    |-> [i \in 1..Len(r.value.rows) |->
                LET raw  == r.value.rows[i]
                    date == to_datetime(raw["date"])
                IN  [c \in DOMAIN raw \cup
                          {"year", "month", "day", "dayofweek", "quarter", "is_weekend"} |->
                     CASE c = "date"       -> date
                       [] c = "year"       -> year(date)
                       [] c = "month"      -> month(date)
                       [] c = "day"        -> day(date)
                       [] c = "dayofweek"  -> dayofweek(date)
                       [] c = "quarter"    -> quarter(date)
                       [] c = "is_weekend" -> is_weekend(dayofweek(date))
                       [] OTHER            -> raw[c]]]])

\* Lines 76-81: the sales file the flag selects.
sales_file(flag) ==
    IF flag THEN data_files["sales_train_validation"]
    ELSE data_files["sales_train_evaluation"]

\* Lines 76-87.
load_sales_data(files, flag) == read_csv(files, sales_file(flag))

\* Lines 96-102.
load_prices(files) == read_csv(files, data_files["sell_prices"])

\* Lines 111-117.
load_sample_submission(files) == read_csv(files, data_files["sample_submission"])

\* Lines 131-136: the dict load_all_data builds from the four values.
all_data(vals) ==
    [calendar          |-> vals[1],
     sales             |-> vals[2],
     prices            |-> vals[3],
     sample_submission |-> vals[4]]

\* Line 266 with the calendar projection assigned back to the collection.
with_sales_melted_inplace(dict) ==
    [k \in DOMAIN dict \cup {"sales_melted"} |->
        IF k = "sales_melted" THEN melt_sales_data(dict["sales"], dict["calendar"])
        ELSE IF k = "calendar" THEN d_date(dict["calendar"])
        ELSE dict[k]]

\* Line 266: data['sales_melted'] = melt_sales_data(data['sales'], data['calendar']).
with_sales_melted(dict) ==
    [k \in DOMAIN dict \cup {"sales_melted"} |->
        IF k = "sales_melted" THEN melt_sales_data(dict["sales"], dict["calendar"])
        ELSE dict[k]]

---------------------------------------------------------------------------
(* Inputs: wide sales tables and calendars. *)

DayIndex(col) == CHOOSE k \in 1..Len(DayColNames) : DayColNames[k] = col

DayCols(D) == [k \in 1..D |-> DayColNames[k]]

\* One row of a wide sales table with D day columns.
SalesRow(id, item, dept, cat, store, state, cells, D) ==
    [c \in Range(IdCols) \cup Range(DayCols(D)) |->
        CASE c = "id"       -> id
          [] c = "item_id"  -> item
          [] c = "dept_id"  -> dept
          [] c = "cat_id"   -> cat
          [] c = "store_id" -> store
          [] c = "state_id" -> state
          [] OTHER          -> cells[DayIndex(c)]]

SalesColumns(D) == IdCols \o DayCols(D)

\* A table of one store with the given shape, items and cells.
TableShapes ==
    {sh \in (0..MaxRows) \X (0..MaxDays) : sh[1] * sh[2] <= MaxCells}

MeltTable(sh, items, cells) ==
    DataFrame(SalesColumns(sh[2]),
        [i \in 1..sh[1] |-> SalesRow(i, items[i], 1, 1, 1, 1, cells[i], sh[2])])

\* A calendar as melt_sales_data reads it: the columns 'd' and 'date'.
MeltCalendar(n, ds, dates) ==
    DataFrame(<<"date", "d">>,
        [i \in 1..n |-> [date |-> <<dates[i]>>, d |-> DayColNames[ds[i]]]])

NoDict == <<>>

NoHierarchy == [kind |-> "none"]

NoFs == <<>>

\* The variables a specification does not use.
IdlePipeline ==
    /\ fs = NoFs
    /\ validation = TRUE
    /\ melt_sales = FALSE
    /\ reads = <<>>
    /\ parts = <<>>
    /\ data = NoDict
    /\ loaded = NoDict
    /\ hierarchy = NoHierarchy
    /\ outcome = NotCalled

---------------------------------------------------------------------------
(* SpecMelt: melt_sales_data called on any sales table and any calendar. *)

InitMelt ==
    /\ IdlePipeline
    /\ pc = "call"
    /\ \E sh \in TableShapes :
          \E items \in [1..sh[1] -> ItemIds],
             cells \in [1..sh[1] -> [1..sh[2] -> SalesValues]] :
              sales_df = MeltTable(sh, items, cells)
    /\ \E n \in 0..MaxCal :
          \E ds \in [1..n -> 1..MaxDays], dates \in [1..n -> MeltDates] :
              calendar_df = MeltCalendar(n, ds, dates)
    /\ merged = NoFrame
    /\ ret = NotCalled

CallMelt ==
    /\ pc = "call"
    /\ pc' = "done"
    /\ merged' = melt_and_merge(sales_df, calendar_df)
    /\ ret' = Returned(melt_sales_data(sales_df, calendar_df))
    /\ UNCHANGED <<fs, validation, melt_sales, reads, parts, data, loaded, hierarchy,
                   outcome, sales_df, calendar_df>>

SpecMelt == InitMelt /\ [][CallMelt]_vars

---------------------------------------------------------------------------
(* SpecHier: create_hierarchical_structure called on any sales table. *)

\* A table with one day column: g gives the identifiers of each row.
HierTable(R, g) ==
    DataFrame(SalesColumns(1),
        [i \in 1..R |->
            SalesRow(i, g[i][1], g[i][2], g[i][3], g[i][4], g[i][5], <<0>>, 1)])

InitHier ==
    /\ IdlePipeline
    /\ pc = "call"
    /\ \E R \in 0..MaxRows :
          \E g \in [1..R -> ItemIds \X GroupIds \X GroupIds \X GroupIds \X GroupIds] :
              sales_df = HierTable(R, g)
    /\ calendar_df = NoFrame
    /\ merged = NoFrame
    /\ ret = NotCalled

CallHier ==
    /\ pc = "call"
    /\ pc' = "done"
    /\ ret' = create_hierarchical_structure(sales_df)
    /\ UNCHANGED <<fs, validation, melt_sales, reads, parts, data, loaded, hierarchy,
                   outcome, sales_df, calendar_df, merged>>

SpecHier == InitHier /\ [][CallHier]_vars

---------------------------------------------------------------------------
(* SpecCalendar: load_calendar called on any calendar file. *)

\* A raw calendar file: each row has a day key and a raw date cell.
RawDates == {IsoDate(n) : n \in WeekDates} \cup {EmptyCell, Garbage}

RawCalendar(n, ds, dates) ==
    DataFrame(<<"date", "d">>,
        [i \in 1..n |-> [date |-> dates[i], d |-> DayColNames[ds[i]]]])

PricesTable ==
    DataFrame(<<"store_id", "item_id", "wm_yr_wk", "sell_price">>,
        << [store_id |-> 1, item_id |-> 1, wm_yr_wk |-> 11101, sell_price |-> 2] >>)

SubmissionTable ==
    DataFrame(<<"id", "F1">>, << [id |-> 1, F1 |-> 0] >>)

\* A data directory: the files in 'present', with the given calendar and
\* sales contents (both sales variants hold the same table).
Directory(present, calendar, sales) ==
    [f \in FileNames |->
        IF f \notin present THEN Missing
        ELSE CASE f = data_files["calendar"]          -> File(calendar)
               [] f = data_files["sell_prices"]       -> File(PricesTable)
               [] f = data_files["sample_submission"] -> File(SubmissionTable)
               [] OTHER                               -> File(sales)]

IdleCall ==
    /\ validation = TRUE
    /\ melt_sales = FALSE
    /\ parts = <<>>
    /\ data = NoDict
    /\ loaded = NoDict
    /\ hierarchy = NoHierarchy
    /\ outcome = NotCalled
    /\ sales_df = NoFrame
    /\ calendar_df = NoFrame
    /\ merged = NoFrame

InitCalendar ==
    /\ IdleCall
    /\ pc = "call"
    /\ reads = <<>>
    /\ ret = NotCalled
    /\ \E n \in 0..MaxCal, here \in BOOLEAN :
          \E ds \in [1..n -> 1..MaxDays], dates \in [1..n -> RawDates] :
              fs = Directory(IF here THEN FileNames
                             ELSE FileNames \ {data_files["calendar"]},
                             RawCalendar(n, ds, dates), NoFrame)

CallLoadCalendar ==
    /\ pc = "call"
    /\ pc' = "done"
    /\ reads' = Append(reads, data_files["calendar"])
    /\ ret' = load_calendar(fs)
    /\ UNCHANGED <<fs, validation, melt_sales, parts, data, loaded, hierarchy,
                   outcome, sales_df, calendar_df, merged>>

SpecCalendar == InitCalendar /\ [][CallLoadCalendar]_vars

---------------------------------------------------------------------------
(* Spec: load_and_prepare_data(data_dir, validation, melt_sales), file by  *)
(* file and step by step.                                                  *)

\* A calendar file whose i-th row is day d_i, its date good or no date.
PipelineCalendar(n, good) ==
    DataFrame(<<"date", "d">>,
        [i \in 1..n |->
            [date |-> IF good[i] THEN IsoDate(n - i) ELSE Garbage,
             d    |-> DayColNames[i]]])

\* A sales file with one day column: g gives item and department of each row.
PipelineTable(R, g) ==
    DataFrame(SalesColumns(1),
        [i \in 1..R |-> SalesRow(i, g[i][1], g[i][2], 1, 1, 1, <<1>>, 1)])

Init ==
    /\ \E present \in SUBSET FileNames, n \in 0..MaxCal, R \in 0..MaxRows :
          \E good \in [1..n -> BOOLEAN], g \in [1..R -> ItemIds \X GroupIds] :
              fs = Directory(present, PipelineCalendar(n, good), PipelineTable(R, g))
    /\ validation \in BOOLEAN
    /\ melt_sales \in BOOLEAN
    /\ pc = "load_calendar"
    /\ reads = <<>>
    /\ parts = <<>>
    /\ data = NoDict
    /\ loaded = NoDict
    /\ hierarchy = NoHierarchy
    /\ outcome = [kind |-> "running"]
    /\ sales_df = NoFrame
    /\ calendar_df = NoFrame
    /\ merged = NoFrame
    /\ ret = NotCalled

\* One entry of the dict display of lines 131-136: the loader r ran on file
\* f; its table is kept for the dict, or its error leaves load_all_data and
\* load_and_prepare_data at once.
Evaluated(f, r, next) ==
    /\ reads' = Append(reads, f)
    /\ IF r.kind = "raised"
       THEN /\ outcome' = r
            /\ pc' = "raised"
            /\ UNCHANGED parts
       ELSE /\ parts' = Append(parts, r.value)
            /\ pc' = next
            /\ UNCHANGED outcome

LoadCalendar ==
    /\ pc = "load_calendar"
    /\ Evaluated(data_files["calendar"], load_calendar(fs), "load_sales")
    /\ UNCHANGED <<fs, validation, melt_sales, data, loaded, hierarchy,
                   sales_df, calendar_df, merged, ret>>

LoadSalesData ==
    /\ pc = "load_sales"
    /\ Evaluated(sales_file(validation), load_sales_data(fs, validation), "load_prices")
    /\ UNCHANGED <<fs, validation, melt_sales, data, loaded, hierarchy,
                   sales_df, calendar_df, merged, ret>>

LoadPrices ==
    /\ pc = "load_prices"
    /\ Evaluated(data_files["sell_prices"], load_prices(fs), "load_sample_submission")
    /\ UNCHANGED <<fs, validation, melt_sales, data, loaded, hierarchy,
                   sales_df, calendar_df, merged, ret>>

LoadSampleSubmission ==
    /\ pc = "load_sample_submission"
    /\ Evaluated(data_files["sample_submission"], load_sample_submission(fs),
                 "load_all_data_return")
    /\ UNCHANGED <<fs, validation, melt_sales, data, loaded, hierarchy,
                   sales_df, calendar_df, merged, ret>>

\* Lines 131-139 and 259: the dict is built and returned to load_and_prepare_data.
LoadAllDataReturn ==
    /\ pc = "load_all_data_return"
    /\ data' = all_data(parts)
    /\ loaded' = all_data(parts)
    /\ pc' = "hierarchy"
    /\ UNCHANGED <<fs, validation, melt_sales, reads, parts, hierarchy, outcome,
                   sales_df, calendar_df, merged, ret>>

\* Line 262.
CreateHierarchy ==
    /\ pc = "hierarchy"
    /\ LET r == create_hierarchical_structure(data["sales"]) IN
       IF r.kind = "raised"
       THEN /\ outcome' = r
            /\ pc' = "raised"
            /\ UNCHANGED hierarchy
       ELSE /\ hierarchy' = r.value
            /\ pc' = IF melt_sales THEN "melt" ELSE "return"
            /\ UNCHANGED outcome
    /\ UNCHANGED <<fs, validation, melt_sales, reads, parts, data, loaded,
                   sales_df, calendar_df, merged, ret>>

\* Lines 265-266.
MeltSales ==
    /\ pc = "melt"
    /\ data' = with_sales_melted(data)
    /\ pc' = "return"
    /\ UNCHANGED <<fs, validation, melt_sales, reads, parts, loaded, hierarchy,
                   outcome, sales_df, calendar_df, merged, ret>>

\* Line 268.
Return ==
    /\ pc = "return"
    /\ outcome' = Returned(<<data, hierarchy>>)
    /\ pc' = "done"
    /\ UNCHANGED <<fs, validation, melt_sales, reads, parts, data, loaded,
                   hierarchy, sales_df, calendar_df, merged, ret>>

Next ==
    \/ LoadCalendar
    \/ LoadSalesData
    \/ LoadPrices
    \/ LoadSampleSubmission
    \/ LoadAllDataReturn
    \/ CreateHierarchy
    \/ MeltSales
    \/ Return

Spec == Init /\ [][Next]_vars

---------------------------------------------------------------------------
(* Claims about melt_sales_data, checked under SpecMelt. *)

MeltReturned == pc = "done" /\ ret.kind = "returned"

Out == ret.value.rows

InRows == sales_df.rows

InDayCols == SelectSeq(sales_df.columns, LAMBDA c : c \in Range(DayColNames))

\* How many calendar rows carry the day key dcol.
CalMatches(dcol) ==
    Cardinality({j \in 1..Len(calendar_df.rows) : calendar_df.rows[j]["d"] = dcol})

\* The dates the calendar gives for the day key dcol.
CalDates(dcol) ==
    {calendar_df.rows[j]["date"] :
        j \in {x \in 1..Len(calendar_df.rows) : calendar_df.rows[x]["d"] = dcol}}

CalendarKeysUnique ==
    \A i, j \in 1..Len(calendar_df.rows) :
        calendar_df.rows[i]["d"] = calendar_df.rows[j]["d"] => i = j

\* Output rows per (input row, day column): one, or one per calendar match.
Copies(dcol) == IF CalMatches(dcol) = 0 THEN 1 ELSE CalMatches(dcol)

\* Output positions that come from input row i and the day column dcol
\* (the 'id' column identifies the input row).
OutOf(i, dcol) ==
    {n \in 1..Len(Out) : Out[n]["id"] = InRows[i]["id"] /\ Out[n]["d"] = dcol}

\* C1 as stated: for any sales table and any calendar, melt_sales_data
\* returns exactly (number of rows) x (number of day columns) rows.
C1_RowCountAnyCalendar ==
    MeltReturned => Len(Out) = Len(InRows) * Len(InDayCols)

\* C1, amended: every (input row, day column) pair yields one output row per
\* calendar row carrying that day key, and one when there is none; so with
\* unique calendar 'd' values the output has exactly R x D rows, each pair
\* exactly once.
C1_RowCount ==
    MeltReturned =>
        /\ \A i \in 1..Len(InRows), k \in 1..Len(InDayCols) :
              Cardinality(OutOf(i, InDayCols[k])) = Copies(InDayCols[k])
        /\ Len(Out) = Len(InRows) *
                        SumSeq([k \in 1..Len(InDayCols) |-> Copies(InDayCols[k])])
        /\ CalendarKeysUnique =>
              /\ Len(Out) = Len(InRows) * Len(InDayCols)
              /\ \A i \in 1..Len(InRows), k \in 1..Len(InDayCols) :
                    Cardinality(OutOf(i, InDayCols[k])) = 1

C1_Witness ==
    /\ MeltReturned
    /\ CalendarKeysUnique
    /\ Len(InRows) = 2 /\ Len(InDayCols) = 2
    /\ Len(calendar_df.rows) = 2
    /\ Len(Out) = 4

\* The sum of 'sales' over the output rows of the group (item_id, d).
GroupSum(item, dcol) ==
    SumSeq([k \in 1..Len(SelectSeq(Out, LAMBDA r : r["item_id"] = item /\ r["d"] = dcol)) |->
              SelectSeq(Out, LAMBDA r : r["item_id"] = item /\ r["d"] = dcol)[k]["sales"]])

\* The sum of the day column's cells over the input rows of the item.
ItemCells(item, dcol) ==
    SumSeq([k \in 1..Len(SelectSeq(InRows, LAMBDA r : r["item_id"] = item)) |->
              SelectSeq(InRows, LAMBDA r : r["item_id"] = item)[k][dcol]])

ItemRowsUnique ==
    \A i, j \in 1..Len(InRows) : InRows[i]["item_id"] = InRows[j]["item_id"] => i = j

\* C2 as stated: for every input row and day column, the melted 'sales'
\* summed over the group (item_id, d) is that row's cell.
C2_RoundTripPerRow ==
    MeltReturned =>
        \A i \in 1..Len(InRows), k \in 1..Len(InDayCols) :
            GroupSum(InRows[i]["item_id"], InDayCols[k]) = InRows[i][InDayCols[k]]

\* C2, amended: the group sum of (item_id, d) is the sum of that day's cells
\* over all input rows of the item, once per calendar row carrying the day
\* key; it is the row's own cell when the item has a single row and the
\* calendar's 'd' values are unique.
C2_RoundTrip ==
    MeltReturned =>
        /\ \A i \in 1..Len(InRows), k \in 1..Len(InDayCols) :
              GroupSum(InRows[i]["item_id"], InDayCols[k]) =
                  Copies(InDayCols[k]) * ItemCells(InRows[i]["item_id"], InDayCols[k])
        /\ (CalendarKeysUnique /\ ItemRowsUnique) =>
              \A i \in 1..Len(InRows), k \in 1..Len(InDayCols) :
                  GroupSum(InRows[i]["item_id"], InDayCols[k]) = InRows[i][InDayCols[k]]

C2_Witness ==
    /\ MeltReturned
    /\ CalendarKeysUnique /\ ItemRowsUnique
    /\ Len(InRows) = 2 /\ Len(InDayCols) = 2
    /\ InRows[1]["d_1"] = 1 /\ InRows[1]["d_2"] = 0 /\ InRows[2]["d_1"] = 0
    /\ GroupSum(InRows[1]["item_id"], "d_1") = 1

\* C3: melt_sales_data does not raise; the rows of a day column without a
\* calendar match are all kept, with a missing date, and the rows of a
\* matched day column carry a calendar date of their 'd' key.
C3_UnmatchedKept ==
    /\ pc = "done" => ret.kind = "returned"
    /\ MeltReturned =>
          \A k \in 1..Len(InDayCols) :
              LET dcol == InDayCols[k] IN
              /\ CalMatches(dcol) = 0 =>
                    /\ \A i \in 1..Len(InRows) : Cardinality(OutOf(i, dcol)) = 1
                    /\ \A n \in 1..Len(Out) : Out[n]["d"] = dcol => Out[n]["date"] = NaT
              /\ CalMatches(dcol) > 0 =>
                    /\ \A i \in 1..Len(InRows) : OutOf(i, dcol) # {}
                    /\ \A n \in 1..Len(Out) :
                          Out[n]["d"] = dcol => Out[n]["date"] \in CalDates(dcol)
                    /\ \A i \in 1..Len(InRows) :
                          {Out[n]["date"] : n \in OutOf(i, dcol)} = CalDates(dcol)

C3_Witness ==
    /\ MeltReturned
    /\ Len(InRows) = 2 /\ Len(InDayCols) = 2
    /\ CalMatches("d_1") = 0 /\ CalMatches("d_2") = 1
    /\ \E n, m \in 1..Len(Out) : Out[n]["date"] = NaT /\ Out[m]["date"] # NaT

\* The rows of a frame with the sort keys (item, date), in order.
KeyGroup(rows, item, date) ==
    SelectSeq(rows, LAMBDA r : r["item_id"] = item /\ r["date"] = date)

\* C4: the output is ordered by item_id ascending and, within an item, by
\* date ascending (missing dates last), its index is 0..n-1 in that order,
\* and rows that tie on item_id and date keep the order they had before
\* the sort.
C4_SortedStable ==
    MeltReturned =>
        /\ ret.value.index = [n \in 1..Len(Out) |-> n - 1]
        /\ \A n, m \in 1..Len(Out) : n < m =>
              /\ Out[n]["item_id"] <= Out[m]["item_id"]
              /\ Out[n]["item_id"] = Out[m]["item_id"] =>
                    /\ Out[n]["date"] = NaT => Out[m]["date"] = NaT
                    /\ (Out[n]["date"] # NaT /\ Out[m]["date"] # NaT) =>
                          Out[n]["date"][1] <= Out[m]["date"][1]
        /\ Len(Out) = Len(merged.rows)
        /\ \A n \in 1..Len(Out) :
              KeyGroup(Out, Out[n]["item_id"], Out[n]["date"]) =
                  KeyGroup(merged.rows, Out[n]["item_id"], Out[n]["date"])

C4_Witness ==
    /\ MeltReturned
    /\ Out # merged.rows
    /\ \E n, m \in 1..Len(Out) :
          /\ n < m
          /\ Out[n]["item_id"] = Out[m]["item_id"]
          /\ Out[n]["date"] = Out[m]["date"] /\ Out[n]["date"] # NaT
          /\ Out[n]["id"] # Out[m]["id"]
    /\ \E n, m \in 1..Len(Out) :
          /\ n < m
          /\ Out[n]["item_id"] = Out[m]["item_id"]
          /\ Out[n]["date"] # NaT /\ Out[m]["date"] # NaT
          /\ Out[n]["date"][1] < Out[m]["date"][1]
          /\ DayIndex(Out[n]["d"]) > DayIndex(Out[m]["d"])

---------------------------------------------------------------------------
(* Claims about create_hierarchical_structure, checked under SpecHier. *)

HierReturned == pc = "done" /\ ret.kind = "returned"

\* C5: the keys of the returned store_state_mapping are exactly the distinct
\* store_id values of the table, and each key is mapped to a state that some
\* input row pairs with that store.
C5_StoreStateMapping ==
    HierReturned =>
        LET m == ret.value.store_state_mapping IN
        /\ DOMAIN m = {InRows[i]["store_id"] : i \in 1..Len(InRows)}
        /\ \A s \in DOMAIN m :
              \E i \in 1..Len(InRows) :
                  InRows[i]["store_id"] = s /\ InRows[i]["state_id"] = m[s]

C5_Witness ==
    /\ HierReturned
    /\ Len(InRows) = 2
    /\ InRows[1]["store_id"] = InRows[2]["store_id"]
    /\ InRows[1]["state_id"] # InRows[2]["state_id"]
    /\ ret.value.store_state_mapping[InRows[1]["store_id"]] = InRows[2]["state_id"]

\* An item_id that the table pairs with two different (dept_id, cat_id).
InconsistentItem(item) ==
    \E i, j \in 1..Len(InRows) :
        /\ InRows[i]["item_id"] = item /\ InRows[j]["item_id"] = item
        /\ \/ InRows[i]["dept_id"] # InRows[j]["dept_id"]
           \/ InRows[i]["cat_id"] # InRows[j]["cat_id"]

\* C6: when an item_id appears with two different (dept_id, cat_id)
\* combinations, create_hierarchical_structure still returns, and
\* item_hierarchy holds for that item one of the combinations seen.
C6_ItemLastSeenWins ==
    \A item \in ItemIds :
        (pc = "done" /\ InconsistentItem(item)) =>
            /\ ret.kind = "returned"
            /\ item \in DOMAIN ret.value.item_hierarchy
            /\ \E i \in 1..Len(InRows) :
                  /\ InRows[i]["item_id"] = item
                  /\ ret.value.item_hierarchy[item] =
                        [dept_id |-> InRows[i]["dept_id"], cat_id |-> InRows[i]["cat_id"]]

---------------------------------------------------------------------------
(* Claims about the loader and load_and_prepare_data, checked under Spec   *)
(* and SpecCalendar.                                                       *)

\* The files load_all_data reads, in the order it is to read them.
LoadOrder ==
    <<"calendar.csv",
      IF validation THEN "sales_train_validation.csv" ELSE "sales_train_evaluation.csv",
      "sell_prices.csv",
      "sample_submission.csv">>

\* Reading file f succeeds: it exists and, for the calendar, its dates parse.
Readable(f) ==
    /\ fs[f].kind = "file"
    /\ f = "calendar.csv" =>
          \A i \in 1..Len(fs[f].table.rows) :
              fs[f].table.rows[i]["date"].text # "garbage"

CollectionKeys == {"calendar", "sales", "prices", "sample_submission"}

\* C7: load_all_data reads calendar, sales, prices, sample_submission in
\* that order and fails fast: a failed read ends the call with its error, no
\* later file is read and no collection exists; a collection exists only
\* after four successful reads, with exactly the four keys.
C7_FailFast ==
    /\ Len(reads) <= Len(LoadOrder)
    /\ \A i \in 1..Len(reads) : reads[i] = LoadOrder[i]
    /\ \A i \in 1..Len(reads) :
          ~Readable(reads[i]) =>
              /\ i = Len(reads)
              /\ pc = "raised"
              /\ outcome.kind = "raised"
              /\ DOMAIN data = {}
              /\ DOMAIN loaded = {}
    /\ \A i \in 1..Len(reads) :
          (Readable(reads[i]) /\ pc \in {"load_calendar", "load_sales", "load_prices",
                                         "load_sample_submission"}) => Len(parts) >= i
    /\ DOMAIN loaded # {} =>
          /\ reads = LoadOrder
          /\ \A i \in 1..Len(reads) : Readable(reads[i])
          /\ DOMAIN loaded = CollectionKeys
          /\ loaded["sales"] = fs[LoadOrder[2]].table
          /\ loaded["prices"] = fs[LoadOrder[3]].table
          /\ loaded["sample_submission"] = fs[LoadOrder[4]].table
    /\ pc = "hierarchy" => (data = loaded /\ DOMAIN data = CollectionKeys)
    /\ DOMAIN loaded = {} => DOMAIN data = {}

C7_Witness ==
    /\ pc = "raised"
    /\ reads = SubSeq(LoadOrder, 1, 3)
    /\ fs["sell_prices.csv"].kind = "missing"
    /\ fs["sample_submission.csv"].kind = "file"
    /\ DOMAIN data = {}

\* load_all_data returned a collection.
LoadingSucceeded == DOMAIN loaded # {}

\* C8: whenever loading succeeds, load_and_prepare_data computes the
\* hierarchy from the loaded sales table and returns the pair (collection,
\* hierarchy), the collection holding 'sales_melted' exactly when melt_sales
\* is true.
C8_AlwaysReturnsPair ==
    (LoadingSucceeded /\ pc \in {"done", "raised"}) =>
        /\ outcome.kind = "returned"
        /\ outcome.value[2] = create_hierarchical_structure(loaded["sales"]).value
        /\ ("sales_melted" \in DOMAIN outcome.value[1]) <=> melt_sales

\* C10: the tables of the collection load_and_prepare_data returns are the
\* tables as loaded; with melt_sales true the one change is the added
\* 'sales_melted' entry.
C10_TablesUnchanged ==
    (pc = "done" /\ outcome.kind = "returned") =>
        /\ \A k \in CollectionKeys : outcome.value[1][k] = loaded[k]
        /\ DOMAIN outcome.value[1] =
              CollectionKeys \cup (IF melt_sales THEN {"sales_melted"} ELSE {})
        /\ loaded["sales"] = fs[LoadOrder[2]].table

C10_Witness ==
    /\ pc = "done" /\ outcome.kind = "returned"
    /\ melt_sales
    /\ Len(loaded["sales"].rows) = 2
    /\ Len(loaded["calendar"].rows) = 2
    /\ Len(outcome.value[1]["sales_melted"].rows) = 2
    /\ outcome.value[1]["sales_melted"].rows[1]["id"] = 2

\* The rows of the calendar load_calendar returned.
CalRows == ret.value.rows

\* C9: for every row of the calendar load_calendar returns, is_weekend is
\* set iff the day-of-week of the row's date (Monday = 0) is 5 or 6, which
\* is iff the date is a Saturday or a Sunday (1970-01-03 and 1970-01-04 are
\* days 2 and 3 after 1970-01-01).
C9_WeekendFlag ==
    (pc = "done" /\ ret.kind = "returned") =>
        /\ Len(CalRows) = Len(fs["calendar.csv"].table.rows)
        /\ \A i \in 1..Len(CalRows) :
              LET raw == fs["calendar.csv"].table.rows[i]["date"] IN
              /\ CalRows[i]["is_weekend"] \in {0, 1}
              /\ CalRows[i]["is_weekend"] = 1 <=>
                    (CalRows[i]["dayofweek"] # <<>> /\ CalRows[i]["dayofweek"][1] \in {5, 6})
              /\ CalRows[i]["is_weekend"] = 1 <=>
                    (raw.text = "iso" /\ raw.day % 7 \in {2, 3})
              /\ raw.text = "iso" =>
                    /\ CalRows[i]["date"] = <<raw.day>>
                    /\ CalRows[i]["dayofweek"] \in {<<n>> : n \in 0..6}

C9_Witness ==
    /\ pc = "done" /\ ret.kind = "returned"
    /\ Len(CalRows) = 2
    /\ CalRows[1]["is_weekend"] = 1 /\ CalRows[1]["dayofweek"] = <<6>>
    /\ CalRows[2]["is_weekend"] = 0 /\ CalRows[2]["dayofweek"] = <<0>>

===========================================================================
